---- MODULE Spec2Model ----
(***************************************************************************)
(* Model of the menu parsing pipeline of Restaurant-ETL:                   *)
(*   restaurant_etl/parsers/llm_parser.py  (LLMMenuParser)                 *)
(*   restaurant_etl/models/menu_models.py  (MenuItem, MenuData)            *)
(*                                                                         *)
(* Representation.                                                         *)
(*   A Python str is a sequence of one-character strings ("" is <<>>).     *)
(*   An Optional value is a sequence of length at most one: None is <<>>,  *)
(*   a present value v is <<v>>.  A float price is an integer.             *)
(*   A dict is a function whose domain is its set of keys.                 *)
(*   A call that raises yields [exc |-> name]; a call that returns yields  *)
(*   [ret |-> value].                                                      *)
(*   A float quotient n / d is the pair [num |-> n, den |-> d].            *)
(***************************************************************************)
EXTENDS Integers, Sequences, FiniteSets, TLC

VARIABLES
    pc,            \* position of the running operation
    text,          \* parse_menu / _chunk_text argument
    max_chars,     \* _chunk_text: the local max_chars
    clean,         \* parse_menu: normalized text
    chunks,        \* parse_menu / _chunk_text: the chunk list
    segments,      \* _chunk_text: the slices text[start:end] before strip()
    idx,           \* parse_menu: 1-based index of the chunk being processed
    attempt,       \* _call_llm_with_retries: loop variable
    backoff,       \* _call_llm_with_retries: current backoff
    parsed,        \* parse_menu: what _call_llm_with_retries handed back
    all_items,     \* parse_menu: raw records of all chunks
    md,            \* parse_menu: the outcome (a MenuData or a raised exception)
    calls,         \* every _call_llm invocation made so far, in order
    sleeps,        \* every time.sleep() made so far, in order
    last_call,     \* the latest _call_llm invocation: what the service and the
                   \* file system did, and what _call_llm did in response
    restaurant_name, \* parse_menu argument
    raw_item,      \* MenuItem(**item): the raw record
    item,          \* MenuItem(**item): the outcome
    primary        \* get_primary_price(): the outcome

vars == <<pc, text, max_chars, clean, chunks, segments, idx, attempt, backoff,
          parsed, all_items, md, calls, sleeps, last_call,
          restaurant_name, raw_item, item,
          primary>>

----------------------------------------------------------------------------
(* Bounds of the model *)

\* longest text handed to parse_menu
MaxTextLen == 2
\* the chunk budget used by parse_menu's chunker in the model (the source
\* fixes max_chars = 2000; the chunker is parametric in it)
ChunkBudget == 1
\* longest text / largest budget explored for _chunk_text on its own
MaxChunkTextLen == 5
MaxBudget == 3
\* most items in one model response
MaxItems == 2
\* longest raw item_name explored for MenuItem on its own
MaxNameLen == 3

(* Program constants *)
max_retries == 3
MAX_PRICE == 100000
MIN_NAME_LENGTH == 2

----------------------------------------------------------------------------
(* Python values *)

None == <<>>
Some(v) == <<v>>
IsNone(o) == o = <<>>
Raise(e) == [exc |-> e]
Return(v) == [ret |-> v]
Raised(r) == "exc" \in DOMAIN r
Returned(r) == "ret" \in DOMAIN r

\* dict.get(k) with default None
Get(d, k) == IF k \in DOMAIN d THEN d[k] ELSE None

Char == {"a", "b", " "}
TextChar == {"a"}
NameChar == {"a", " ", "\t"}
Whitespace == {" ", "\t"}

RECURSIVE SeqsUpTo(_, _)
SeqsUpTo(S, n) ==
    IF n = 0 THEN {<<>>}
    ELSE LET shorter == SeqsUpTo(S, n - 1)
         IN  shorter \cup {Append(s, x) : s \in {t \in shorter : Len(t) = n - 1}, x \in S}

RECURSIVE Concat(_)
Concat(ss) == IF ss = <<>> THEN <<>> ELSE Head(ss) \o Concat(Tail(ss))

\* str.lstrip() / str.rstrip() / str.strip()
RECURSIVE LStrip(_)
LStrip(s) == IF s # <<>> /\ Head(s) \in Whitespace THEN LStrip(Tail(s)) ELSE s

RECURSIVE RStrip(_)
RStrip(s) ==
    IF s # <<>> /\ s[Len(s)] \in Whitespace
    THEN RStrip(SubSeq(s, 1, Len(s) - 1))
    ELSE s

Strip(s) == LStrip(RStrip(s))

\* str.split(): the maximal runs of non-whitespace characters, in order
RECURSIVE SplitFrom(_, _, _)
SplitFrom(s, word, words) ==
    IF s = <<>> THEN (IF word = <<>> THEN words ELSE Append(words, word))
    ELSE IF Head(s) \in Whitespace
         THEN SplitFrom(Tail(s), <<>>, IF word = <<>> THEN words ELSE Append(words, word))
         ELSE SplitFrom(Tail(s), Append(word, Head(s)), words)

Split(s) == SplitFrom(s, <<>>, <<>>)

\* ' '.join(words)
RECURSIVE Join(_)
Join(words) ==
    IF words = <<>> THEN <<>>
    ELSE IF Len(words) = 1 THEN Head(words)
    ELSE Head(words) \o <<" ">> \o Join(Tail(words))

Min(a, b) == IF a <= b THEN a ELSE b
Max(a, b) == IF a >= b THEN a ELSE b

----------------------------------------------------------------------------
(* LLMMenuParser._chunk_text *)

\* the loop resuming one character after the end of the slice
RECURSIVE chunk_slices_skip(_, _, _)
chunk_slices_skip(t, budget, start) ==
    IF start < Len(t)
    THEN LET end == Min(start + budget, Len(t))
         IN  <<SubSeq(t, start + 1, end)>> \o chunk_slices_skip(t, budget, end + 1)
    ELSE <<>>

\* the while loop: the slices text[start:end], start advancing to end
RECURSIVE chunk_slices(_, _, _)
chunk_slices(t, budget, start) ==
    IF start < Len(t)
    THEN LET end == Min(start + budget, Len(t))
         IN  <<SubSeq(t, start + 1, end)>> \o chunk_slices(t, budget, end)
    ELSE <<>>

\* the untrimmed pieces the chunker cuts the text into
chunk_segments(t, budget) ==
    IF Len(t) <= budget THEN <<t>> ELSE chunk_slices(t, budget, 0)

chunk_text(t, budget) ==
    IF Len(t) <= budget THEN <<t>>
    ELSE LET sl == chunk_slices(t, budget, 0)
         IN  [i \in 1..Len(sl) |-> Strip(sl[i])]

----------------------------------------------------------------------------
(* menu_models.MenuItem *)

PRICE_FIELDS ==
    <<"price", "half_plate_price", "full_plate_price",
      "small_price", "medium_price", "large_price">>

\* Field(..., min_length=2): checked on the string as it was passed in
name_length_ok(v) == Len(v) >= MIN_NAME_LENGTH

\* @field_validator('item_name'): runs after the field's own constraints
clean_name(v) == Strip(Join(Split(v)))

\* Field(None, ge=0) on an Optional[float]
price_ge_ok(o) == IsNone(o) \/ o[1] >= 0

\* @field_validator('price', ...): raises on a negative or too high price
validate_price(o) ==
    IF ~IsNone(o) /\ o[1] < 0 THEN Raise("ValueError")
    ELSE IF ~IsNone(o) /\ o[1] > MAX_PRICE THEN Raise("ValueError")
    ELSE Return(o)

price_field_ok(o) == price_ge_ok(o) /\ Returned(validate_price(o))

\* MenuItem(**raw): keys outside the model's fields are ignored; currency,
\* spice_level and dietary_tags keep their defaults, as the response schema
\* admits none of them
MenuItem(raw) ==
    IF "item_name" \notin DOMAIN raw THEN Raise("ValidationError")
    ELSE IF ~name_length_ok(raw["item_name"]) THEN Raise("ValidationError")
    ELSE IF \E i \in 1..Len(PRICE_FIELDS) : ~price_field_ok(Get(raw, PRICE_FIELDS[i]))
         THEN Raise("ValidationError")
    ELSE Return([item_name        |-> clean_name(raw["item_name"]),
                 category         |-> Get(raw, "category"),
                 description      |-> Get(raw, "description"),
                 price            |-> validate_price(Get(raw, "price")).ret,
                 half_plate_price |-> validate_price(Get(raw, "half_plate_price")).ret,
                 full_plate_price |-> validate_price(Get(raw, "full_plate_price")).ret,
                 small_price      |-> validate_price(Get(raw, "small_price")).ret,
                 medium_price     |-> validate_price(Get(raw, "medium_price")).ret,
                 large_price      |-> validate_price(Get(raw, "large_price")).ret,
                 currency         |-> None,
                 spice_level      |-> None,
                 dietary_tags     |-> <<>>])

has_any_price(self) ==
    \/ ~IsNone(self.price)
    \/ ~IsNone(self.half_plate_price)
    \/ ~IsNone(self.full_plate_price)
    \/ ~IsNone(self.small_price)
    \/ ~IsNone(self.medium_price)
    \/ ~IsNone(self.large_price)

\* Python truth value of an Optional[float]: None and 0.0 are false
Truthy(o) == ~IsNone(o) /\ o[1] # 0

\* Python's  a or b
Or(a, b) == IF Truthy(a) THEN a ELSE b

get_primary_price(self) ==
    Or(self.price,
    Or(self.full_plate_price,
    Or(self.half_plate_price,
    Or(self.large_price,
    Or(self.medium_price,
       self.small_price)))))

----------------------------------------------------------------------------
(* menu_models.MenuData and the arithmetic of parse_menu *)

\* Python's  n / d  on ints
Div(n, d) == IF d = 0 THEN Raise("ZeroDivisionError") ELSE Return([num |-> n, den |-> d])

\* extraction_confidence: float = Field(1.0, ge=0.0, le=1.0); q.den > 0
confidence_ok(q) == q.num >= 0 /\ q.num <= q.den

MenuData(name, items, total, conf) ==
    IF ~confidence_ok(conf) THEN Raise("ValidationError")
    ELSE Return([items                 |-> items,
                 restaurant_name       |-> name,
                 total_items           |-> total,
                 source_file           |-> None,
                 extraction_confidence |-> conf,
                 detected_currency     |-> None,
                 extraction_method     |-> None])

\* the loop keeping every record that validates, priced or not
RECURSIVE valid_items_of_unfiltered(_)
valid_items_of_unfiltered(raws) ==
    IF raws = <<>> THEN <<>>
    ELSE LET obj == MenuItem(Head(raws))
         IN  IF Returned(obj)
             THEN <<obj.ret>> \o valid_items_of_unfiltered(Tail(raws))
             ELSE valid_items_of_unfiltered(Tail(raws))

\* parse_menu, the loop over all_items: a record is kept when MenuItem(**item)
\* does not raise and the item has a price; kept items are appended
RECURSIVE valid_items_of(_)
valid_items_of(raws) ==
    IF raws = <<>> THEN <<>>
    ELSE LET obj == MenuItem(Head(raws))
         IN  IF Returned(obj) /\ has_any_price(obj.ret)
             THEN <<obj.ret>> \o valid_items_of(Tail(raws))
             ELSE valid_items_of(Tail(raws))

\* the ratio taken over the retained items only
confidence_of_kept(valid, raws) == Div(Len(valid), Max(1, Len(valid)))

\* the ratio without the guard on the denominator
confidence_of_unguarded(valid, raws) == Div(Len(valid), Len(raws))

\* len(valid_items) / max(1, len(all_items))
confidence_of(valid, raws) == Div(Len(valid), Max(1, Len(raws)))

\* restaurant_name or "Unknown"
name_or_unknown(name) == IF IsNone(name) \/ name[1] = <<>> THEN Some(<<"U", "n", "k", "n", "o", "w", "n">>) ELSE name

\* parse_menu from the validation loop to the return
build_menu_data(name, raws) ==
    LET valid == valid_items_of(raws)
        conf  == confidence_of(valid, raws)
    IN  IF Raised(conf) THEN conf
        ELSE MenuData(name_or_unknown(name), valid, Len(valid), conf.ret)

----------------------------------------------------------------------------
(* LLMMenuParser._call_llm *)

ITEM_KEYS ==
    {"item_name", "category", "description", "price", "half_plate_price",
     "full_plate_price", "small_price", "medium_price", "large_price",
     "price_display"}

\* validate(instance=data, schema=MENU_JSON_SCHEMA["schema"]): the required
\* keys and additionalProperties: False, at both levels
schema_valid(data) ==
    /\ "items" \in DOMAIN data
    /\ DOMAIN data \subseteq {"items"}
    /\ \A i \in 1..Len(data.items) :
          /\ "item_name" \in DOMAIN data.items[i]
          /\ DOMAIN data.items[i] \subseteq ITEM_KEYS

\* json.loads(raw)
json_loads(raw) ==
    CASE raw.kind = "null"      -> Raise("TypeError")
      [] raw.kind = "malformed" -> Raise("JSONDecodeError")
      [] raw.kind = "json"      -> Return(raw.data)

\* _call_llm for one response of the service (api: the create() call raised, or
\* returned the message content) and one behaviour of the file system
\* (write_ok: mkdir/open/write of logs/last_llm_response.json succeed)
call_llm(text_chunk, api, write_ok) ==
    IF Raised(api) THEN api
    ELSE IF ~write_ok THEN Raise("OSError")
    ELSE LET data == json_loads(api.ret)
         IN  IF Raised(data) THEN data
             ELSE IF ~schema_valid(data.ret) THEN Raise("ValidationError")
             ELSE data

\* the loop giving up one attempt early
on_attempt_early(r, n) ==
    IF Returned(r) THEN [do |-> "return", value |-> Return(Some(r.ret))]
    ELSE IF n = max_retries - 1 THEN [do |-> "return", value |-> Return(None)]
    ELSE [do |-> "retry"]

\* the loop re-raising the last failure instead of returning None
on_attempt_reraise(r, n) ==
    IF Returned(r) THEN [do |-> "return", value |-> Return(Some(r.ret))]
    ELSE IF n = max_retries THEN [do |-> "return", value |-> r]
    ELSE [do |-> "retry"]

\* one iteration of the loop of _call_llm_with_retries, r being what
\* _call_llm did: return its value, return None after the last attempt,
\* or sleep and go round again
on_attempt(r, n) ==
    IF Returned(r) THEN [do |-> "return", value |-> Return(Some(r.ret))]
    ELSE IF n = max_retries THEN [do |-> "return", value |-> Return(None)]
    ELSE [do |-> "retry"]

\* the backoff left as it is
next_backoff_same(b) == b

\* backoff *= 2
next_backoff(b) == b * 2

\* the new records put in front of the old ones
extend_items_front(raws, p) ==
    IF ~IsNone(p) /\ DOMAIN p[1] # {}
    THEN (IF "items" \in DOMAIN p[1] THEN p[1].items ELSE <<>>) \o raws
    ELSE raws

\* if parsed: all_items.extend(parsed.get("items", []))
extend_items(raws, p) ==
    IF ~IsNone(p) /\ DOMAIN p[1] # {}
    THEN raws \o (IF "items" \in DOMAIN p[1] THEN p[1].items ELSE <<>>)
    ELSE raws

----------------------------------------------------------------------------
(* utils.clean_text.normalize_extracted_text: runs of blanks collapse to one *)

RECURSIVE normalize_extracted_text(_)
normalize_extracted_text(t) ==
    IF Len(t) < 2 THEN t
    ELSE IF t[1] \in Whitespace /\ t[2] \in Whitespace
         THEN normalize_extracted_text(Tail(t))
         ELSE <<Head(t)>> \o normalize_extracted_text(Tail(t))

----------------------------------------------------------------------------
(* Inputs *)

Pending == [pending |-> TRUE]

Texts == SeqsUpTo(TextChar, MaxTextLen)
RestaurantNames == {None, Some(<<"R">>)}

\* raw records a response can hold: priced, priced with a zero price and a
\* name to clean, without any price, and with a price out of range
RawPriced   == [item_name |-> <<"a", "b">>, category |-> Some(<<"M">>), price |-> Some(7)]
RawZero     == [item_name |-> <<"b", " ", " ", "a">>, price |-> None, large_price |-> Some(0)]
RawUnpriced == [item_name |-> <<"a", "a">>, price |-> None, price_display |-> None]
RawTooHigh  == [item_name |-> <<"b", "b">>, price |-> Some(MAX_PRICE + 1)]
RawItems == {RawPriced, RawZero, RawUnpriced, RawTooHigh}

\* well-formed responses: up to MaxItems different records, in any order
NoRepeat(its) == \A i, j \in 1..Len(its) : its[i] = its[j] => i = j
GoodDocs == {[items |-> its] : its \in {s \in SeqsUpTo(RawItems, MaxItems) : NoRepeat(s)}}
BadDocs ==
    { [menu |-> <<>>],                          \* "items" missing
      [items |-> <<>>, note |-> <<>>],          \* additional property
      [items |-> <<[category |-> None]>>] }     \* "item_name" missing
RawContents ==
    {[kind |-> "null"], [kind |-> "malformed"]}
        \cup {[kind |-> "json", data |-> d] : d \in GoodDocs \cup BadDocs}

\* what client.chat.completions.create can do
APIOutcomes ==
    {Raise("APIConnectionError"), Raise("APITimeoutError")}
        \cup {Return(raw) : raw \in RawContents}

----------------------------------------------------------------------------
(* LLMMenuParser.parse_menu *)

Init ==
    /\ pc = "start"
    /\ text \in Texts
    /\ restaurant_name \in RestaurantNames
    /\ max_chars = ChunkBudget
    /\ clean = <<>>
    /\ chunks = <<>>
    /\ segments = <<>>
    /\ idx = 0
    /\ attempt = 0
    /\ backoff = 0
    /\ parsed = Return(None)
    /\ all_items = <<>>
    /\ md = Pending
    /\ calls = <<>>
    /\ sleeps = <<>>
    /\ last_call = Pending
    /\ raw_item = Pending
    /\ item = Pending
    /\ primary = Pending

\* entering _call_llm_with_retries for chunk k, or leaving the chunk loop
EnterChunk(k, n) ==
    IF k <= n
    THEN /\ idx' = k
         /\ attempt' = 1
         /\ backoff' = 1
         /\ pc' = "call"
    ELSE /\ pc' = "build"
         /\ UNCHANGED <<idx, attempt, backoff>>

\* parse_menu up to the first chunk
Start ==
    /\ pc = "start"
    /\ LET c == normalize_extracted_text(text)
       IN  /\ clean' = c
           /\ chunks' = chunk_text(c, max_chars)
           /\ segments' = chunk_segments(c, max_chars)
           /\ EnterChunk(1, Len(chunk_text(c, max_chars)))
    /\ all_items' = <<>>
    /\ UNCHANGED <<text, restaurant_name, max_chars, parsed, md, calls, sleeps,
                   last_call, raw_item, item, primary>>

\* one iteration of the retry loop
Attempt(api, write_ok) ==
    /\ pc = "call"
    /\ LET r    == call_llm(chunks[idx], api, write_ok)
           step == on_attempt(r, attempt)
       IN  /\ calls' = Append(calls, [chunk   |-> idx,
                                      attempt |-> attempt,
                                      ok      |-> Returned(r),
                                      data    |-> IF Returned(r) THEN Some(r.ret) ELSE None])
           /\ last_call' = [api |-> api, write_ok |-> write_ok, result |-> r]
           /\ IF step.do = "return"
              THEN /\ parsed' = step.value
                   /\ pc' = "extend"
                   /\ UNCHANGED <<attempt, backoff, sleeps>>
              ELSE /\ sleeps' = Append(sleeps, [chunk |-> idx, after |-> attempt, secs |-> backoff])
                   /\ backoff' = next_backoff(backoff)
                   /\ IF attempt < max_retries
                      THEN /\ attempt' = attempt + 1
                           /\ UNCHANGED <<parsed, pc>>
                      ELSE /\ parsed' = Return(None)
                           /\ pc' = "extend"
                           /\ UNCHANGED attempt
    /\ UNCHANGED <<text, restaurant_name, max_chars, clean, chunks, segments, idx,
                   all_items, md, raw_item, item, primary>>

CallSucceeds ==
    \E api \in APIOutcomes, write_ok \in BOOLEAN :
        /\ pc = "call"
        /\ Returned(call_llm(chunks[idx], api, write_ok))
        /\ Attempt(api, write_ok)

CallFailsRetry ==
    \E api \in APIOutcomes, write_ok \in BOOLEAN :
        /\ pc = "call"
        /\ Raised(call_llm(chunks[idx], api, write_ok))
        /\ attempt < max_retries
        /\ Attempt(api, write_ok)

CallFailsFinal ==
    \E api \in APIOutcomes, write_ok \in BOOLEAN :
        /\ pc = "call"
        /\ Raised(call_llm(chunks[idx], api, write_ok))
        /\ attempt >= max_retries
        /\ Attempt(api, write_ok)

\* back in parse_menu: if parsed: all_items.extend(...), then the next chunk
Extend ==
    /\ pc = "extend"
    /\ IF Raised(parsed)
       THEN /\ md' = parsed
            /\ pc' = "done"
            /\ UNCHANGED <<all_items, idx, attempt, backoff>>
       ELSE /\ all_items' = extend_items(all_items, parsed.ret)
            /\ EnterChunk(idx + 1, Len(chunks))
            /\ UNCHANGED md
    /\ UNCHANGED <<text, restaurant_name, max_chars, clean, chunks, segments, parsed,
                   calls, sleeps, last_call, raw_item, item, primary>>

\* the validation loop, MenuData(...) and the return
Build ==
    /\ pc = "build"
    /\ md' = build_menu_data(restaurant_name, all_items)
    /\ pc' = "done"
    /\ UNCHANGED <<text, restaurant_name, max_chars, clean, chunks, segments, idx,
                   attempt, backoff, parsed, all_items, calls, sleeps, last_call,
                   raw_item, item, primary>>

Next == Start \/ CallSucceeds \/ CallFailsRetry \/ CallFailsFinal \/ Extend \/ Build

Spec == Init /\ [][Next]_vars

----------------------------------------------------------------------------
(* _chunk_text on its own, for every text and every budget *)

Idle ==
    /\ clean = <<>>
    /\ idx = 0
    /\ attempt = 0
    /\ backoff = 0
    /\ parsed = Return(None)
    /\ all_items = <<>>
    /\ md = Pending
    /\ calls = <<>>
    /\ sleeps = <<>>
    /\ last_call = Pending
    /\ restaurant_name = None

InitChunk ==
    /\ pc = "chunk_start"
    /\ text \in SeqsUpTo(Char, MaxChunkTextLen)
    /\ max_chars \in 1..MaxBudget
    /\ chunks = <<>>
    /\ segments = <<>>
    /\ Idle
    /\ raw_item = Pending
    /\ item = Pending
    /\ primary = Pending

ChunkText ==
    /\ pc = "chunk_start"
    /\ chunks' = chunk_text(text, max_chars)
    /\ segments' = chunk_segments(text, max_chars)
    /\ pc' = "chunk_done"
    /\ UNCHANGED <<text, max_chars, clean, idx, attempt, backoff, parsed, all_items,
                   md, calls, sleeps, last_call, restaurant_name, raw_item, item,
                   primary>>

NextChunk == ChunkText

SpecChunk == InitChunk /\ [][NextChunk]_vars

----------------------------------------------------------------------------
(* MenuItem on its own: construction from a raw record, then the helpers *)

NameInputs == SeqsUpTo(NameChar, MaxNameLen)
PriceInputs == {None, Some(0), Some(7), Some(9), Some(-1), Some(MAX_PRICE + 1)}

\* every name with a price or without one; every combination of the six prices
RawItemInputs ==
    {[item_name |-> n, price |-> p] : n \in NameInputs, p \in {None, Some(7)}}
        \cup
    {[item_name |-> <<"a", "a">>,
      price |-> p1, half_plate_price |-> p2, full_plate_price |-> p3,
      small_price |-> p4, medium_price |-> p5, large_price |-> p6] :
        p1 \in PriceInputs, p2 \in PriceInputs, p3 \in PriceInputs,
        p4 \in PriceInputs, p5 \in PriceInputs, p6 \in PriceInputs}

InitItem ==
    /\ pc = "item_start"
    /\ raw_item \in RawItemInputs
    /\ item = Pending
    /\ primary = Pending
    /\ text = <<>>
    /\ max_chars = ChunkBudget
    /\ chunks = <<>>
    /\ segments = <<>>
    /\ Idle

\* obj = MenuItem(**item)
Construct ==
    /\ pc = "item_start"
    /\ item' = MenuItem(raw_item)
    /\ pc' = "item_built"
    /\ UNCHANGED <<text, max_chars, clean, chunks, segments, idx, attempt, backoff,
                   parsed, all_items, md, calls, sleeps, last_call, restaurant_name,
                   raw_item, primary>>

\* obj.get_primary_price()
PrimaryPrice ==
    /\ pc = "item_built"
    /\ Returned(item)
    /\ primary' = get_primary_price(item.ret)
    /\ pc' = "item_priced"
    /\ UNCHANGED <<text, max_chars, clean, chunks, segments, idx, attempt, backoff,
                   parsed, all_items, md, calls, sleeps, last_call, restaurant_name,
                   raw_item, item>>

NextItem == Construct \/ PrimaryPrice

SpecItem == InitItem /\ [][NextItem]_vars

----------------------------------------------------------------------------
(* Properties *)

\* the _call_llm invocations made for chunk k, in order
RECURSIVE CallsOfIn(_, _)
CallsOfIn(k, log) ==
    IF log = <<>> THEN <<>>
    ELSE IF Head(log).chunk = k
         THEN <<Head(log)>> \o CallsOfIn(k, Tail(log))
         ELSE CallsOfIn(k, Tail(log))

CallsOf(k) == CallsOfIn(k, calls)

AllFailed(log) == \A i \in 1..Len(log) : ~log[i].ok

\* the chunk's calls are attempts 1, 2, ... and only the last one may succeed
WellNumbered(log) ==
    \A i \in 1..Len(log) : log[i].attempt = i /\ (log[i].ok => i = Len(log))

\* C1: when _call_llm_with_retries hands a chunk back to parse_menu, it has
\* returned and not raised; it made attempts 1, 2, ... in turn and stopped at
\* the first success; a success (on attempt 3 after two failures included)
\* yields exactly the schema-valid data of that call; None is yielded only
\* after max_retries = 3 failed attempts, and always then.
C1_RetryOutcome ==
    pc = "extend" =>
        LET mine == CallsOf(idx)
            n    == Len(mine)
        IN  /\ Returned(parsed)
            /\ n \in 1..max_retries
            /\ WellNumbered(mine)
            /\ mine[n].ok =>
                  /\ parsed.ret = mine[n].data
                  /\ ~IsNone(parsed.ret)
                  /\ schema_valid(parsed.ret[1])
            /\ ~mine[n].ok => n = max_retries /\ IsNone(parsed.ret)

\* C1 witness: two failed attempts, then a third that succeeds with items
C1_Witness ==
    /\ pc = "extend"
    /\ LET mine == CallsOf(idx)
       IN  /\ Len(mine) = 3
           /\ ~mine[1].ok /\ ~mine[2].ok /\ mine[3].ok
           /\ ~IsNone(parsed.ret)
           /\ parsed.ret[1].items # <<>>

\* what chunk k added to all_items: the items of its successful call, if any
Contribution(k) ==
    LET mine == CallsOf(k)
    IN  IF mine # <<>> /\ mine[Len(mine)].ok THEN mine[Len(mine)].data[1].items ELSE <<>>

RECURSIVE ContributionsUpTo(_)
ContributionsUpTo(k) ==
    IF k = 0 THEN <<>> ELSE ContributionsUpTo(k - 1) \o Contribution(k)

Exhausted(k) == LET mine == CallsOf(k) IN Len(mine) = max_retries /\ AllFailed(mine)

\* the order of the positions within one chunk, and after the chunk loop
Rank(p) ==
    CASE p = "start"  -> 0
      [] p = "call"   -> 1
      [] p = "extend" -> 2
      [] p = "build"  -> 3
      [] p = "done"   -> 4

\* a step moves on to a later chunk, a later attempt or a later position
Advance ==
    \/ idx' > idx
    \/ idx' = idx /\ attempt' > attempt
    \/ idx' = idx /\ attempt' = attempt /\ Rank(pc') > Rank(pc)

InRange ==
    /\ pc \in {"start", "call", "extend", "build", "done"}
    /\ pc \in {"call", "extend"} => idx \in 1..Len(chunks) /\ attempt \in 1..max_retries
    /\ pc \in {"build", "done"} => idx = Len(chunks)

Absorbed ==
    pc = "done" =>
        /\ Returned(md)
        /\ \A k \in 1..Len(chunks) : CallsOf(k) # <<>>
        /\ all_items = ContributionsUpTo(Len(chunks))
        /\ \A k \in 1..Len(chunks) : Exhausted(k) => Contribution(k) = <<>>
        /\ (\A k \in 1..Len(chunks) : Exhausted(k)) =>
              /\ md.ret.items = <<>>
              /\ md.ret.total_items = 0
              /\ md.ret.extraction_confidence.num = 0

\* C2: parse_menu always ends by returning a MenuData: every step moves it to
\* a later chunk, attempt or position, all of them bounded, and its outcome is
\* a MenuData, never an exception.  Every chunk has been attempted, whatever
\* happened to the chunks before it; the raw records are exactly those of the
\* chunks that succeeded, so a chunk that exhausted its retries added nothing;
\* and when every chunk failed the MenuData has no items and confidence 0.
C2_ChunkFailureAbsorbed == [](InRange /\ Absorbed) /\ [][Advance]_vars

\* C2 witness: the first chunk exhausted its retries and the second one still
\* delivered a retained item
C2_Witness ==
    /\ pc = "done"
    /\ Len(chunks) = 2
    /\ Exhausted(1)
    /\ ~Exhausted(2)
    /\ Returned(md)
    /\ md.ret.items # <<>>

\* C3: the MenuData returned has total_items = len(items) and
\* extraction_confidence = len(items) / max(1, number of raw records), a
\* ratio between 0 and 1.
C3_CountAndConfidence ==
    pc = "done" =>
        /\ Returned(md)
        /\ md.ret.total_items = Len(md.ret.items)
        /\ LET q == md.ret.extraction_confidence
           IN  /\ q.den > 0
               /\ q.num * Max(1, Len(all_items)) = Len(md.ret.items) * q.den
               /\ 0 <= q.num /\ q.num <= q.den

\* C3 witness: some raw records were retained and some were dropped
C3_Witness ==
    /\ pc = "done"
    /\ Returned(md)
    /\ md.ret.items # <<>>
    /\ Len(md.ret.items) < Len(all_items)

\* ceil(n / m) for m > 0
CeilDiv(n, m) == (n + m - 1) \div m

\* C4: _chunk_text cuts the text into pieces that, put together in order
\* before trimming, give the text back; every chunk is such a piece, trimmed
\* or (for a text within the budget) as it is; no chunk is longer than
\* max_chars; and a non-empty text gives ceil(len / max_chars) chunks.
C4_Chunker ==
    pc = "chunk_done" =>
        /\ Concat(segments) = text
        /\ Len(chunks) = Len(segments)
        /\ \A i \in 1..Len(chunks) :
              /\ chunks[i] \in {segments[i], Strip(segments[i])}
              /\ Len(chunks[i]) <= max_chars
        /\ text # <<>> => Len(chunks) = CeilDiv(Len(text), max_chars)

\* C4 witness: three chunks, the last one shorter than the budget, one of them
\* trimmed
C4_Witness ==
    /\ pc = "chunk_done"
    /\ Len(chunks) = 3
    /\ max_chars = 2
    /\ Len(text) = 5
    /\ \E i \in 1..Len(chunks) : Len(chunks[i]) < Len(segments[i])

\* C5: an attempt ends as it would have ended had the diagnostic file been
\* written: the result of _call_llm does not depend on the write.
C5_WriteFailureHarmless ==
    last_call # Pending =>
        last_call.result = call_llm(<<>>, last_call.api, TRUE)

PriceOf(obj, f) == obj[f]

AnyPriceSet(obj) == \E i \in 1..Len(PRICE_FIELDS) : ~IsNone(PriceOf(obj, PRICE_FIELDS[i]))

\* C6: every item of the MenuData returned has at least one of its six price
\* fields set; a record with all six null is never among them.
C6_OnlyPricedItems ==
    pc = "done" =>
        /\ Returned(md)
        /\ \A i \in 1..Len(md.ret.items) : AnyPriceSet(md.ret.items[i])

\* C6 witness: the service returned a schema-valid record without any price
\* next to a priced one, and the MenuData holds an item
C6_Witness ==
    /\ pc = "done"
    /\ Returned(md)
    /\ \E i \in 1..Len(all_items) : all_items[i] = RawUnpriced
    /\ md.ret.items # <<>>

\* C7: a MenuItem that was constructed has a non-empty name without leading,
\* trailing or repeated whitespace.
C7_NameCleaned ==
    pc = "item_built" /\ Returned(item) =>
        LET n == item.ret.item_name
        IN  /\ n # <<>>
            /\ n[1] \notin Whitespace
            /\ n[Len(n)] \notin Whitespace
            /\ \A i \in 1..(Len(n) - 1) : ~(n[i] \in Whitespace /\ n[i + 1] \in Whitespace)

PRIORITY ==
    <<"price", "full_plate_price", "half_plate_price",
      "large_price", "medium_price", "small_price">>

\* the first non-null price in priority order, None when there is none
RECURSIVE FirstNonNull(_, _)
FirstNonNull(obj, fields) ==
    IF fields = <<>> THEN None
    ELSE IF ~IsNone(obj[Head(fields)]) THEN obj[Head(fields)]
    ELSE FirstNonNull(obj, Tail(fields))

\* C8: get_primary_price returns the first non-null price in the order price,
\* full plate, half plate, large, medium, small, a price of 0 included, and
\* None only when all six are null.
C8_PrimaryPrice ==
    pc = "item_priced" => primary = FirstNonNull(item.ret, PRIORITY)

\* a raw record that MenuItem accepts and that carries a price
Usable(raw) == Returned(MenuItem(raw)) /\ AnyPriceSet(MenuItem(raw).ret)

EmptyInputReturns ==
    /\ Len(chunks) = 1
    /\ chunks[1] = <<>>
    /\ Len(CallsOf(1)) >= 1
    /\ Returned(md)
    /\ md.ret.total_items = Len(md.ret.items)

\* C9 as claimed: on empty input the MenuData has no items and confidence 0,
\* whatever the service does with the empty chunk.
C9_EmptyInputAlwaysEmpty ==
    pc = "done" /\ text = <<>> =>
        /\ EmptyInputReturns
        /\ md.ret.total_items = 0
        /\ md.ret.extraction_confidence.num = 0

\* C9 as amended: on empty input parse_menu sends the single empty chunk to
\* the service and returns a MenuData, without a division error; the MenuData
\* has no items and confidence 0 whenever the service fails on the chunk or
\* returns no record that validates with a price.
C9_EmptyInput ==
    pc = "done" /\ text = <<>> =>
        /\ EmptyInputReturns
        /\ (\A i \in 1..Len(all_items) : ~Usable(all_items[i])) =>
              /\ md.ret.total_items = 0
              /\ md.ret.extraction_confidence.num = 0

\* C9 witness: empty input, the service fails on the empty chunk, and the
\* ratio is taken over no raw record at all
C9_Witness ==
    /\ pc = "done"
    /\ text = <<>>
    /\ Exhausted(1)
    /\ all_items = <<>>
    /\ Returned(md)
    /\ md.ret.extraction_confidence = [num |-> 0, den |-> 1]

\* kept is what remains of raws, in order, after dropping some records
RECURSIVE RetainedInOrder(_, _)
RetainedInOrder(kept, raws) ==
    IF kept = <<>> THEN TRUE
    ELSE IF raws = <<>> THEN FALSE
    ELSE LET obj == MenuItem(Head(raws))
         IN  IF Returned(obj) /\ obj.ret = Head(kept)
             THEN RetainedInOrder(Tail(kept), Tail(raws))
             ELSE RetainedInOrder(kept, Tail(raws))

\* C10: the service is called chunk after chunk in the original order, never
\* going back; the raw records are those of chunk 1, then chunk 2, ..., each
\* chunk's in the order the service returned them; and the items of the
\* MenuData are what remains of that sequence, in the same order.
C10_ItemOrder ==
    /\ \A i \in 1..(Len(calls) - 1) :
          calls[i + 1].chunk \in {calls[i].chunk, calls[i].chunk + 1}
    /\ calls # <<>> => calls[1].chunk = 1
    /\ pc \in {"build", "done"} => all_items = ContributionsUpTo(Len(chunks))
    /\ pc = "call" => all_items = ContributionsUpTo(idx - 1)
    /\ pc = "done" => Returned(md) /\ RetainedInOrder(md.ret.items, all_items)

\* C10 witness: both chunks delivered records, two different items were
\* retained and a record between them was dropped
C10_Witness ==
    /\ pc = "done"
    /\ Len(chunks) = 2
    /\ Contribution(1) = <<RawPriced, RawUnpriced>>
    /\ Contribution(2) = <<RawTooHigh, RawZero>>
    /\ Returned(md)
    /\ Len(md.ret.items) = 2

\* the time.sleep() calls made while chunk k was being retried, in order
RECURSIVE SleepsOfIn(_, _)
SleepsOfIn(k, log) ==
    IF log = <<>> THEN <<>>
    ELSE IF Head(log).chunk = k
         THEN <<Head(log)>> \o SleepsOfIn(k, Tail(log))
         ELSE SleepsOfIn(k, Tail(log))

SleepsOf(k) == SleepsOfIn(k, sleeps)

RECURSIVE Pow2(_)
Pow2(n) == IF n = 0 THEN 1 ELSE 2 * Pow2(n - 1)

\* the failed attempts of a chunk that are followed by another attempt
RetriedFailures(log) == Cardinality({i \in 1..Len(log) : ~log[i].ok /\ i < max_retries})

\* C11: for each chunk _call_llm is called at most max_retries = 3 times, as
\* attempts 1, 2, ..., with no call after the first success; after failed
\* attempt k < 3 the loop sleeps 2^(k-1) (1 before attempt 2, 2 before attempt
\* 3), it does not sleep after a success nor after the failed attempt 3, and
\* the schedule starts again at 1 for every chunk.
C11_AttemptsAndBackoff ==
    \A k \in 1..Len(chunks) :
        LET mine   == CallsOf(k)
            waited == SleepsOf(k)
        IN  /\ Len(mine) <= max_retries
            /\ WellNumbered(mine)
            /\ Len(waited) = RetriedFailures(mine)
            /\ \A i \in 1..Len(waited) :
                  /\ waited[i].after = i
                  /\ waited[i].secs = Pow2(i - 1)

\* C11 witness: the first chunk slept once and then succeeded; the second
\* chunk failed three times, slept 1 and 2, and was handed back without a
\* third sleep
C11_Witness ==
    /\ pc = "extend"
    /\ idx = 2
    /\ Len(CallsOf(1)) = 2
    /\ Len(SleepsOf(1)) = 1
    /\ Exhausted(2)
    /\ Len(SleepsOf(2)) = 2
    /\ SleepsOf(2)[1].secs = 1
    /\ SleepsOf(2)[2].secs = 2

====
